---- MODULE Spec2Model ----
(***************************************************************************)
(* State-machine model of the e-mail gateway of src/server.js: the three   *)
(* authenticated routes POST /test, POST /sync and POST /send, each one a  *)
(* handler that suspends at its awaits (connect, lock, search, fetch,      *)
(* parse, verify, sendMail, logout).  The mail session, the mail transport *)
(* and the MIME parser are collaborators: every call to one of them either *)
(* succeeds or throws, chosen nondeterministically.                         *)
(***************************************************************************)
EXTENDS Integers, Sequences, FiniteSets, TLC

VARIABLES
    mailbox,    \* INBOX on the provider: mailbox[uid] = internal date (day number)
    syncPc,     \* position of the /sync handler
    syncReq,    \* header and body of the /sync request being handled
    syncClient, \* options of the ImapFlow client built by /sync
    snapshot,   \* the mailbox as it was when client.search ran
    found,      \* result of client.search, as returned (before bounding)
    uids,       \* the list `uids` after bounding
    fetchPos,   \* number of messages the fetch iterator has yielded
    inflight,   \* the message yielded by fetch and not yet pushed
    messages,   \* the list `messages`
    maxUid,     \* the variable `maxUid`
    lock,       \* the INBOX lock of /sync: "none", "held" or "released"
    syncLog,    \* collaborator calls made for the /sync request, in order
    syncRes,    \* response attempts of the /sync request, in order
    chain,      \* caller's view: the last successful /sync result, and whether it was fed back
    sendPc,     \* position of the /send handler
    sendReq,    \* header and body of the /send request being handled
    sendLog,    \* sendMail attempts of the /send request, in order
    sendRes,    \* response attempts of the /send request, in order
    testPc,     \* position of the /test handler
    testReq,    \* header and body of the /test request being handled
    imap,       \* the value `imap` of /test
    smtp,       \* the value `smtp` of /test
    testLog,    \* collaborator calls made for the /test request, in order
    testRes,    \* response attempts of the /test request, in order
    keyed       \* messages pushed by the body of the fetch loop: parsed input and pushed record

syncVars == <<syncPc, syncReq, syncClient, snapshot, found, uids, fetchPos, inflight,
              messages, maxUid, lock, syncLog, syncRes, chain>>
sendVars == <<sendPc, sendReq, sendLog, sendRes>>
testVars == <<testPc, testReq, imap, smtp, testLog, testRes>>
vars == <<mailbox, keyed, syncVars, sendVars, testVars>>

(***************************************************************************)
(* Bounds of the model.                                                    *)
(***************************************************************************)
MaxMsgs == 3        \* messages the mailbox can hold (UIDs 1..MaxMsgs)
MaxLimit == 2       \* largest explicit `limit` a request carries
MaxCursor == 3      \* largest explicit `cursor` a request carries

(***************************************************************************)
(* Optional values: <<>> is an absent (undefined) field, <<x>> a present   *)
(* one.                                                                    *)
(***************************************************************************)
Opt(S) == {<<>>} \cup {<<x>> : x \in S}
Present(o) == o # <<>>
\* a ?? b
Coalesce(o, d) == IF Present(o) THEN o[1] ELSE d

Max(a, b) == IF a >= b THEN a ELSE b
Min(a, b) == IF a <= b THEN a ELSE b

(***************************************************************************)
(* Configuration and authentication.                                       *)
(***************************************************************************)
API_KEY == "secret"
PrimaryHost == "mail.privateemail.com"
SecondaryHost == "smtp.privateemail.com"
DefaultImapPort == 993
DefaultSmtpPort == 465
DefaultBackfillDays == 14
DefaultLimit == 50
\* Date.now(), as a day number
Now == 20

\* String(a || "")
KeyString(k) == IF Present(k) THEN k[1] ELSE ""
safeEqual(a, b) == KeyString(a) = KeyString(b)
requireApiKeyIfPresent(req) == ~Present(req.key) \/ safeEqual(req.key, <<API_KEY>>)

\* if (!safeEqual(key, API_KEY)) return res.status(401)...; next()
requireApiKey(req) == safeEqual(req.key, <<API_KEY>>)

NoOverrides ==
    [imapPort |-> <<>>, imapSecure |-> <<>>, smtpHost |-> <<>>,
     smtpPort |-> <<>>, smtpSecure |-> <<>>]

cfg(overrides) ==
    [imapHost |-> PrimaryHost,
     imapPort |-> Coalesce(overrides.imapPort, DefaultImapPort),
     imapSecure |-> Coalesce(overrides.imapSecure, TRUE),
     smtpHost |-> Coalesce(overrides.smtpHost, PrimaryHost),
     smtpPort |-> Coalesce(overrides.smtpPort, DefaultSmtpPort),
     smtpSecure |-> Coalesce(overrides.smtpSecure, TRUE)]

\* advanced || {}
AdvancedOrEmpty(advanced) == Coalesce(advanced, NoOverrides)

(***************************************************************************)
(* Inputs of the requests.                                                 *)
(***************************************************************************)
Keys == {<<>>, <<"">>, <<"secret">>, <<"wrong!">>, <<"no">>}
Emails == {"", "user@example.com"}
Passwords == {"", "pw"}
Dates == {10, 20}
Advanced ==
    {<<>>,
     <<[NoOverrides EXCEPT !.smtpHost = <<"smtp.custom.example">>]>>,
     <<[NoOverrides EXCEPT !.imapPort = <<143>>, !.imapSecure = <<FALSE>>,
                           !.smtpPort = <<587>>, !.smtpSecure = <<FALSE>>]>>}
Cursors == Opt(0 .. MaxCursor)
Limits == Opt(0 .. MaxLimit)
BackfillDays == {<<>>, <<5>>}

(***************************************************************************)
(* The mailbox.  UIDs are assigned 1, 2, 3, ... in order of arrival; the   *)
(* internal date of a message is any day of Dates.                         *)
(***************************************************************************)
MailboxUids == 1 .. Len(mailbox)

Arrive ==
    /\ Len(mailbox) < MaxMsgs
    /\ \E d \in Dates : mailbox' = Append(mailbox, d)
    /\ UNCHANGED <<keyed, syncVars, sendVars, testVars>>

(***************************************************************************)
(* POST /sync: pure steps.                                                 *)
(***************************************************************************)
RECURSIVE SetToAscSeq(_)
SetToAscSeq(S) ==
    IF S = {} THEN <<>>
    ELSE LET m == CHOOSE x \in S : \A y \in S : x <= y
         IN <<m>> \o SetToAscSeq(S \ {m})

SeqToSet(s) == {s[i] : i \in 1 .. Len(s)}

\* `if (cursor)`: undefined and 0 are both falsy
CursorTruthy(cursor) == Present(cursor) /\ cursor[1] # 0

\* client.search({ uid: `${lo}:*` }): the UIDs of the mailbox from lo upwards
\* (the search contract of the mail session: a range that starts above the
\* highest UID matches nothing)
SearchUidRange(lo) == {u \in MailboxUids : u >= lo}

\* client.search({ since }): the messages dated since or later
SearchSince(since) == {u \in MailboxUids : mailbox[u] >= since}

SearchIgnoringCursor(cursor, backfillDays) ==
    SetToAscSeq(SearchSince(Now - backfillDays))

\* the result of the search of lines 116-122, as a list in mailbox order
SearchOffByOne(cursor, backfillDays) ==
    SetToAscSeq(IF CursorTruthy(cursor)
                THEN SearchUidRange(cursor[1])
                ELSE SearchSince(Now - backfillDays))

Search(cursor, backfillDays) ==
    SetToAscSeq(IF CursorTruthy(cursor)
                THEN SearchUidRange(cursor[1] + 1)
                ELSE SearchSince(Now - backfillDays))

\* uids.slice(0, n)
Slice(s, n) == SubSeq(s, 1, Min(n, Len(s)))

BoundBatchOldest(list, limit) ==
    SortSeq(Slice(SortSeq(list, LAMBDA a, b : a < b), limit),
            LAMBDA a, b : a < b)

BoundBatchDescending(list, limit) ==
    Slice(SortSeq(list, LAMBDA a, b : a > b), limit)

\* sort descending, keep `limit`, sort ascending
BoundBatch(list, limit) ==
    SortSeq(Slice(SortSeq(list, LAMBDA a, b : a > b), limit),
            LAMBDA a, b : a < b)

InitMaxUidZero(cursor) == 0

\* let maxUid = cursor ? Number(cursor) : 0
InitMaxUid(cursor) == IF CursorTruthy(cursor) THEN cursor[1] ELSE 0

NextMaxUidStale(m, uid) == m

\* maxUid = Math.max(maxUid, msg.uid)
NextMaxUid(m, uid) == Max(m, uid)

(***************************************************************************)
(* POST /sync: the handler.                                                *)
(***************************************************************************)
IdleSyncReq ==
    [key |-> <<>>, email |-> "", password |-> "", cursor |-> <<>>,
     backfillDays |-> <<>>, limit |-> <<>>, advanced |-> <<>>]
NoClient == [host |-> "", port |-> 0, secure |-> FALSE, user |-> "", pass |-> ""]

SyncRequests ==
    [key : Keys, email : Emails, password : Passwords, cursor : Cursors,
     backfillDays : BackfillDays, limit : Limits, advanced : Advanced]
ChainRequests ==
    [key : {<<API_KEY>>}, email : {"user@example.com"}, password : {"pw"},
     cursor : Cursors, backfillDays : BackfillDays, limit : Limits,
     advanced : {<<>>}]

Unauthorized == [status |-> 401, ok |-> FALSE, error |-> "Unauthorized"]
MissingCredentials == [status |-> 400, ok |-> FALSE, error |-> "Missing email/password"]
MissingFields == [status |-> 400, ok |-> FALSE, error |-> "Missing required fields"]
ServerError(e) == [status |-> 500, ok |-> FALSE, error |-> e]
SyncOk(c, msgs) == [status |-> 200, ok |-> TRUE, cursor |-> c, messages |-> msgs]

\* new ImapFlow({ host, port, secure, auth })
ImapClient(c, email, password) ==
    [host |-> c.imapHost, port |-> c.imapPort, secure |-> c.imapSecure,
     user |-> email, pass |-> password]

\* the request arrives: requireApiKey, then the handler up to client.connect()
SyncStart(req) ==
    /\ syncPc = "idle"
    /\ syncReq' = req
    /\ IF ~requireApiKey(req)
       THEN /\ syncRes' = <<Unauthorized>>
            /\ syncPc' = "done"
            /\ UNCHANGED syncClient
       ELSE IF req.email = "" \/ req.password = ""
       THEN /\ syncRes' = <<MissingCredentials>>
            /\ syncPc' = "done"
            /\ UNCHANGED syncClient
       ELSE /\ syncRes' = <<>>
            /\ syncPc' = "connect"
            /\ syncClient' = ImapClient(cfg(AdvancedOrEmpty(req.advanced)),
                                        req.email, req.password)
    /\ UNCHANGED <<mailbox, keyed, snapshot, found, uids, fetchPos, inflight, messages,
                   maxUid, lock, syncLog, sendVars, testVars>>

\* any caller, any request
SyncRequest ==
    /\ syncPc = "idle"
    /\ \E req \in SyncRequests : SyncStart(req)
    /\ UNCHANGED chain

\* a caller that holds valid credentials and keeps the cursor it was returned:
\* `fed` records that the request carries the cursor of the last successful sync
ChainRequest ==
    /\ syncPc = "idle"
    /\ \E req \in ChainRequests :
         /\ SyncStart(req)
         /\ chain' = [chain EXCEPT !.fed = Present(chain.last)
                                          /\ req.cursor = <<chain.last[1].cursor>>]

\* one entry of a log: a call made to a collaborator, and whether it succeeded
Call(name, ok) == [call |-> name, ok |-> ok]

\* await client.connect()
SyncConnect ==
    /\ syncPc = "connect"
    /\ \E ok \in BOOLEAN :
         /\ syncLog' = Append(syncLog, Call("connect", ok))
         /\ IF ok
            THEN syncPc' = "lock" /\ UNCHANGED syncRes
            ELSE /\ syncRes' = Append(syncRes, ServerError("connect failed"))
                 /\ syncPc' = "logout"
    /\ UNCHANGED <<mailbox, keyed, syncReq, syncClient, snapshot, found, uids, fetchPos, inflight,
                   messages, maxUid, lock, chain, sendVars, testVars>>

SyncLockNoLogout ==
    /\ syncPc = "lock"
    /\ \E ok \in BOOLEAN :
         /\ syncLog' = Append(syncLog, Call("getMailboxLock", ok))
         /\ IF ok
            THEN syncPc' = "search" /\ lock' = "held" /\ UNCHANGED syncRes
            ELSE /\ syncRes' = Append(syncRes, ServerError("lock failed"))
                 /\ syncPc' = "done"
                 /\ UNCHANGED lock
    /\ UNCHANGED <<mailbox, keyed, syncReq, syncClient, snapshot, found, uids, fetchPos, inflight,
                   messages, maxUid, chain, sendVars, testVars>>

\* await client.getMailboxLock("INBOX")
SyncLock ==
    /\ syncPc = "lock"
    /\ \E ok \in BOOLEAN :
         /\ syncLog' = Append(syncLog, Call("getMailboxLock", ok))
         /\ IF ok
            THEN syncPc' = "search" /\ lock' = "held" /\ UNCHANGED syncRes
            ELSE /\ syncRes' = Append(syncRes, ServerError("lock failed"))
                 /\ syncPc' = "logout"
                 /\ UNCHANGED lock
    /\ UNCHANGED <<mailbox, keyed, syncReq, syncClient, snapshot, found, uids, fetchPos, inflight,
                   messages, maxUid, chain, sendVars, testVars>>

SyncThrowNoRelease(e, releaseOk, call) ==
    /\ UNCHANGED lock
    /\ syncLog' = Append(syncLog, Call(call, FALSE))
    /\ syncRes' = Append(syncRes, ServerError(e))
    /\ syncPc' = "logout"

\* an exception leaves the inner try: `finally { lock.release() }`, then
\* `catch (e) { res.status(500)... }` with the error that reaches it
SyncThrow(e, releaseOk, call) ==
    /\ lock' = "released"
    /\ syncLog' = syncLog \o <<Call(call, FALSE), Call("release", releaseOk)>>
    /\ syncRes' = Append(syncRes,
                         ServerError(IF releaseOk THEN e ELSE "release failed"))
    /\ syncPc' = "logout"

\* await client.search(...), then the bounding of the batch and the set-up
\* of the fetch loop
SyncSearch ==
    /\ syncPc = "search"
    /\ \E ok \in BOOLEAN, releaseOk \in BOOLEAN :
         IF ok
         THEN LET res == Search(syncReq.cursor,
                                Coalesce(syncReq.backfillDays, DefaultBackfillDays))
              IN /\ snapshot' = mailbox
                 /\ found' = res
                 /\ uids' = BoundBatch(res, Coalesce(syncReq.limit, DefaultLimit))
                 /\ messages' = <<>>
                 /\ maxUid' = InitMaxUid(syncReq.cursor)
                 /\ fetchPos' = 0
                 /\ syncLog' = Append(syncLog, Call("search", TRUE))
                 /\ syncPc' = "fetch"
                 /\ UNCHANGED <<lock, syncRes>>
         ELSE /\ SyncThrow("search failed", releaseOk, "search")
              /\ UNCHANGED <<snapshot, found, uids, messages, maxUid, fetchPos>>
    /\ UNCHANGED <<mailbox, keyed, syncReq, syncClient, inflight, chain, sendVars, testVars>>

\* the next step of `for await (const msg of client.fetch(uids, ...))`: the
\* iterator yields the next message, ends, or throws
SyncFetch ==
    /\ syncPc = "fetch"
    /\ \E ok \in BOOLEAN, releaseOk \in BOOLEAN :
         IF ~ok
         THEN /\ SyncThrow("fetch failed", releaseOk, "fetch")
              /\ UNCHANGED <<fetchPos, inflight, maxUid>>
         ELSE IF fetchPos < Len(uids)
         THEN /\ fetchPos' = fetchPos + 1
              /\ inflight' = <<uids[fetchPos + 1]>>
              /\ maxUid' = NextMaxUid(maxUid, uids[fetchPos + 1])
              /\ syncLog' = Append(syncLog, Call("fetch", TRUE))
              /\ syncPc' = "parse"
              /\ UNCHANGED <<lock, syncRes>>
         ELSE \* res.json({ ok: true, cursor: maxUid, messages }); lock.release()
              /\ lock' = "released"
              /\ syncLog' = Append(syncLog, Call("release", releaseOk))
              /\ syncRes' = syncRes \o <<SyncOk(maxUid, messages)>>
                              \o (IF releaseOk THEN <<>>
                                  ELSE <<ServerError("release failed")>>)
              /\ syncPc' = "logout"
              /\ UNCHANGED <<fetchPos, inflight, maxUid>>
    /\ UNCHANGED <<mailbox, keyed, syncReq, syncClient, snapshot, found, uids, messages, chain,
                   sendVars, testVars>>

SyncParseSkip ==
    /\ syncPc = "parse"
    /\ \E ok \in BOOLEAN :
         /\ messages' = IF ok THEN Append(messages, [uid |-> inflight[1]])
                        ELSE messages
         /\ inflight' = <<>>
         /\ syncLog' = Append(syncLog, Call("parse", ok))
         /\ syncPc' = "fetch"
         /\ UNCHANGED <<lock, syncRes>>
    /\ UNCHANGED <<mailbox, keyed, syncReq, syncClient, snapshot, found, uids, fetchPos, maxUid,
                   chain, sendVars, testVars>>

\* await simpleParser(msg.source), then messages.push({...})
SyncParse ==
    /\ syncPc = "parse"
    /\ \E ok \in BOOLEAN, releaseOk \in BOOLEAN :
         IF ok
         THEN /\ messages' = Append(messages, [uid |-> inflight[1]])
              /\ inflight' = <<>>
              /\ syncLog' = Append(syncLog, Call("parse", TRUE))
              /\ syncPc' = "fetch"
              /\ UNCHANGED <<lock, syncRes>>
         ELSE /\ SyncThrow("parse failed", releaseOk, "parse")
              /\ UNCHANGED <<messages, inflight>>
    /\ UNCHANGED <<mailbox, keyed, syncReq, syncClient, snapshot, found, uids, fetchPos, maxUid,
                   chain, sendVars, testVars>>

\* finally { try { await client.logout(); } catch {} }
SyncLogout ==
    /\ syncPc = "logout"
    /\ \E ok \in BOOLEAN : syncLog' = Append(syncLog, Call("logout", ok))
    /\ syncPc' = "done"
    /\ UNCHANGED <<mailbox, keyed, syncReq, syncClient, snapshot, found, uids, fetchPos, inflight,
                   messages, maxUid, lock, syncRes, chain, sendVars, testVars>>

\* the response the caller receives is the first one written
SyncResponse == syncRes[1]
SyncSucceeded == syncRes # <<>> /\ SyncResponse.status = 200
ReturnedUids == {SyncResponse.messages[i].uid : i \in 1 .. Len(SyncResponse.messages)}

\* the handler has returned
SyncFinish ==
    /\ syncPc = "done"
    /\ syncPc' = "idle"
    /\ syncReq' = IdleSyncReq
    /\ syncClient' = NoClient
    /\ snapshot' = <<>>
    /\ found' = <<>>
    /\ uids' = <<>>
    /\ fetchPos' = 0
    /\ inflight' = <<>>
    /\ messages' = <<>>
    /\ maxUid' = 0
    /\ lock' = "none"
    /\ syncLog' = <<>>
    /\ syncRes' = <<>>
    /\ UNCHANGED <<mailbox, keyed, sendVars, testVars>>

SyncReturn == SyncFinish /\ UNCHANGED chain

\* the candidates of this call that uids.slice cut off and whose UID is
\* below the cursor the call returned
DroppedBelowCursor ==
    {d \in SeqToSet(found) \ ReturnedUids : d < SyncResponse.cursor}

\* the caller keeps the result of a successful sync
ChainReturn ==
    /\ SyncFinish
    /\ chain' = [last |-> IF SyncSucceeded
                          THEN <<[cursor |-> SyncResponse.cursor, uids |-> ReturnedUids]>>
                          ELSE chain.last,
                 fed |-> FALSE,
                 dropped |-> IF SyncSucceeded
                             THEN (IF chain.fed THEN chain.dropped ELSE {})
                                    \cup DroppedBelowCursor
                             ELSE chain.dropped]

(***************************************************************************)
(* POST /send.                                                             *)
(***************************************************************************)
Fields == {"", "x"}
Errors == {"EAUTH", "ECONNECTION"}

SendRequests ==
    [key : Keys, fromEmail : Emails, password : Passwords, to : Fields,
     subject : Fields, bodyText : Fields, bodyHtml : Fields, advanced : Advanced]
IdleSendReq ==
    [key |-> <<>>, fromEmail |-> "", password |-> "", to |-> "", subject |-> "",
     bodyText |-> "", bodyHtml |-> "", advanced |-> <<>>]

\* What one `await transport.sendMail(...)` can do: the host accepts the
\* message and sendMail resolves; the host does not accept it and sendMail
\* rejects; or the host accepts it and sendMail rejects all the same (the
\* connection fails or times out after the message was handed over, before
\* the reply is read).
SendOutcomes ==
    {[accepted |-> TRUE, error |-> <<>>]}
        \cup [accepted : BOOLEAN, error : {<<e>> : e \in Errors}]

\* { ...(advanced || {}), smtpHost: host }
WithSmtpHost(advanced, host) ==
    [AdvancedOrEmpty(advanced) EXCEPT !.smtpHost = host]

TransportSharedAuth(c, user, pass) ==
    [host |-> c.smtpHost, port |-> c.smtpPort, secure |-> c.smtpSecure,
     user |-> syncReq.email, pass |-> syncReq.password]

\* nodemailer.createTransport({ host, port, secure, auth })
Transport(c, user, pass) ==
    [host |-> c.smtpHost, port |-> c.smtpPort, secure |-> c.smtpSecure,
     user |-> user, pass |-> pass]

\* one call of trySend(host), as the record of the attempt
trySend(host, outcome) ==
    LET c == cfg(WithSmtpHost(sendReq.advanced, <<host>>))
    IN [transport |-> Transport(c, sendReq.fromEmail, sendReq.password),
        accepted |-> outcome.accepted,
        ok |-> ~Present(outcome.error),
        error |-> outcome.error]

\* { ok: true, messageId: info.messageId, usedHost: c.smtpHost }
SendOk(attempt) ==
    [status |-> 200, ok |-> TRUE, messageId |-> <<"id", attempt.transport.host>>,
     usedHost |-> attempt.transport.host]

FinalErrorOfFirst(log) == log[1].error[1]

\* the `e` of the outer catch: what the last trySend threw
FinalError(log) == log[Len(log)].error[1]

SendInvalidNoBodyCheck(req) ==
    \/ req.fromEmail = ""
    \/ req.password = ""
    \/ req.to = ""
    \/ req.subject = ""

SendInvalid(req) ==
    \/ req.fromEmail = ""
    \/ req.password = ""
    \/ req.to = ""
    \/ req.subject = ""
    \/ (req.bodyText = "" /\ req.bodyHtml = "")

\* the request arrives: requireApiKey, then the handler up to the first sendMail
SendStart(req) ==
    /\ sendPc = "idle"
    /\ sendReq' = req
    /\ IF ~requireApiKey(req)
       THEN sendRes' = <<Unauthorized>> /\ sendPc' = "done"
       ELSE IF SendInvalid(req)
       THEN sendRes' = <<MissingFields>> /\ sendPc' = "done"
       ELSE sendRes' = <<>> /\ sendPc' = "primary"
    /\ UNCHANGED <<mailbox, keyed, syncVars, sendLog, testVars>>

\* any caller, any request
SendRequest ==
    /\ sendPc = "idle"
    /\ \E req \in SendRequests : SendStart(req)

\* return res.json(await trySend("mail.privateemail.com"))
SendPrimary ==
    /\ sendPc = "primary"
    /\ \E outcome \in SendOutcomes :
         LET attempt == trySend(PrimaryHost, outcome)
         IN /\ sendLog' = Append(sendLog, attempt)
            /\ IF attempt.ok
               THEN sendRes' = Append(sendRes, SendOk(attempt)) /\ sendPc' = "done"
               ELSE sendPc' = "secondary" /\ UNCHANGED sendRes
    /\ UNCHANGED <<mailbox, keyed, syncVars, sendReq, testVars>>

\* catch { return res.json(await trySend("smtp.privateemail.com")) }, and
\* the outer catch when that throws
SendSecondary ==
    /\ sendPc = "secondary"
    /\ \E outcome \in SendOutcomes :
         LET attempt == trySend(SecondaryHost, outcome)
             log == Append(sendLog, attempt)
         IN /\ sendLog' = log
            /\ sendRes' = Append(sendRes, IF attempt.ok THEN SendOk(attempt)
                                          ELSE ServerError(FinalError(log)))
            /\ sendPc' = "done"
    /\ UNCHANGED <<mailbox, keyed, syncVars, sendReq, testVars>>

\* the handler has returned
SendReturn ==
    /\ sendPc = "done"
    /\ sendPc' = "idle"
    /\ sendReq' = IdleSendReq
    /\ sendLog' = <<>>
    /\ sendRes' = <<>>
    /\ UNCHANGED <<mailbox, keyed, syncVars, testVars>>

(***************************************************************************)
(* POST /test.                                                             *)
(***************************************************************************)
TestRequests ==
    [key : Keys, email : Emails, password : Passwords, advanced : Advanced]
IdleTestReq == [key |-> <<>>, email |-> "", password |-> "", advanced |-> <<>>]

\* { ok: true } and { ok: false, error }
ImapResult(error) == [ok |-> ~Present(error), error |-> error]
\* { ok: true, smtpHost } and { ok: false, error, smtpHost }
SmtpResult(error, host) == [ok |-> ~Present(error), error |-> error, smtpHost |-> host]

\* one call of testSmtp({ email, password, advanced, smtpHostOverride }):
\* the transport it builds and the result it returns
testSmtp(smtpHostOverride, error) ==
    LET c == cfg(WithSmtpHost(testReq.advanced, smtpHostOverride))
    IN [transport |-> Transport(c, testReq.email, testReq.password),
        result |-> SmtpResult(error, c.smtpHost)]

OverallSmtpOnly(i, s) == s.ok

\* ok: imap.ok && smtp.ok
Overall(i, s) == i.ok /\ s.ok

\* res.json({ ok: imap.ok && smtp.ok, imap, smtp })
TestResponse(i, s) == [status |-> 200, ok |-> Overall(i, s), imap |-> i, smtp |-> s]

\* the request arrives: requireApiKey, then the handler up to client.connect()
\* of testImap
TestStart(req) ==
    /\ testPc = "idle"
    /\ testReq' = req
    /\ IF ~requireApiKey(req)
       THEN testRes' = <<Unauthorized>> /\ testPc' = "done"
       ELSE IF req.email = "" \/ req.password = ""
       THEN testRes' = <<MissingCredentials>> /\ testPc' = "done"
       ELSE testRes' = <<>> /\ testPc' = "imapConnect"
    /\ UNCHANGED <<mailbox, keyed, syncVars, sendVars, imap, smtp, testLog>>

\* any caller, any request
TestRequest ==
    /\ testPc = "idle"
    /\ \E req \in TestRequests : TestStart(req)

\* testImap: await client.connect()
TestImapConnect ==
    /\ testPc = "imapConnect"
    /\ \E ok \in BOOLEAN :
         /\ testLog' = Append(testLog,
                              [call |-> "connect", ok |-> ok,
                               client |-> ImapClient(cfg(AdvancedOrEmpty(testReq.advanced)),
                                                     testReq.email, testReq.password)])
         /\ IF ok
            THEN testPc' = "imapLock" /\ UNCHANGED imap
            ELSE /\ imap' = <<ImapResult(<<"connect failed">>)>>
                 /\ testPc' = "imapLogout"
    /\ UNCHANGED <<mailbox, keyed, syncVars, sendVars, testReq, smtp, testRes>>

\* testImap: await client.getMailboxLock("INBOX"); lock.release()
TestImapLock ==
    /\ testPc = "imapLock"
    /\ \E ok \in BOOLEAN, releaseOk \in BOOLEAN :
         /\ testLog' = testLog \o <<[call |-> "getMailboxLock", ok |-> ok]>>
                         \o (IF ok THEN <<[call |-> "release", ok |-> releaseOk]>>
                             ELSE <<>>)
         /\ imap' = <<ImapResult(IF ~ok THEN <<"lock failed">>
                                 ELSE IF ~releaseOk THEN <<"release failed">>
                                 ELSE <<>>)>>
         /\ testPc' = "imapLogout"
    /\ UNCHANGED <<mailbox, keyed, syncVars, sendVars, testReq, smtp, testRes>>

\* testImap: finally { try { await client.logout(); } catch {} }
TestImapLogout ==
    /\ testPc = "imapLogout"
    /\ \E ok \in BOOLEAN :
         testLog' = Append(testLog, [call |-> "logout", ok |-> ok])
    /\ testPc' = "smtpPrimary"
    /\ UNCHANGED <<mailbox, keyed, syncVars, sendVars, testReq, imap, smtp, testRes>>

\* let smtp = await testSmtp({ email, password, advanced }), and the
\* response when it is ok
TestSmtpPrimary ==
    /\ testPc = "smtpPrimary"
    /\ \E error \in Opt(Errors) :
         LET first == testSmtp(<<>>, error)
         IN /\ testLog' = Append(testLog, [call |-> "verify", ok |-> first.result.ok,
                                           transport |-> first.transport,
                                           result |-> first.result])
            /\ smtp' = <<first.result>>
            /\ IF first.result.ok
               THEN /\ testRes' = Append(testRes, TestResponse(imap[1], first.result))
                    /\ testPc' = "done"
               ELSE testPc' = "smtpFallback" /\ UNCHANGED testRes
    /\ UNCHANGED <<mailbox, keyed, syncVars, sendVars, testReq, imap>>

\* const fallback = await testSmtp({ ..., smtpHostOverride: "smtp.privateemail.com" });
\* if (fallback.ok) smtp = fallback; and the response
TestSmtpFallback ==
    /\ testPc = "smtpFallback"
    /\ \E error \in Opt(Errors) :
         LET fallback == testSmtp(<<SecondaryHost>>, error)
             reported == IF fallback.result.ok THEN fallback.result ELSE smtp[1]
         IN /\ testLog' = Append(testLog, [call |-> "verify", ok |-> fallback.result.ok,
                                           transport |-> fallback.transport,
                                           result |-> fallback.result])
            /\ smtp' = <<reported>>
            /\ testRes' = Append(testRes, TestResponse(imap[1], reported))
            /\ testPc' = "done"
    /\ UNCHANGED <<mailbox, keyed, syncVars, sendVars, testReq, imap>>

\* the handler has returned
TestReturn ==
    /\ testPc = "done"
    /\ testPc' = "idle"
    /\ testReq' = IdleTestReq
    /\ imap' = <<>>
    /\ smtp' = <<>>
    /\ testLog' = <<>>
    /\ testRes' = <<>>
    /\ UNCHANGED <<mailbox, keyed, syncVars, sendVars>>

(***************************************************************************)
(* Initial state and specifications.                                       *)
(***************************************************************************)
\* no request of any route has arrived yet
HandlersIdle ==
    /\ keyed = <<>>
    /\ syncPc = "idle"
    /\ syncReq = IdleSyncReq
    /\ syncClient = NoClient
    /\ snapshot = <<>>
    /\ found = <<>>
    /\ uids = <<>>
    /\ fetchPos = 0
    /\ inflight = <<>>
    /\ messages = <<>>
    /\ maxUid = 0
    /\ lock = "none"
    /\ syncLog = <<>>
    /\ syncRes = <<>>
    /\ chain = [last |-> <<>>, fed |-> FALSE, dropped |-> {}]
    /\ sendPc = "idle"
    /\ sendReq = IdleSendReq
    /\ sendLog = <<>>
    /\ sendRes = <<>>
    /\ testPc = "idle"
    /\ testReq = IdleTestReq
    /\ imap = <<>>
    /\ smtp = <<>>
    /\ testLog = <<>>
    /\ testRes = <<>>

Init ==
    /\ mailbox = <<>>
    /\ HandlersIdle

NextSync ==
    \/ Arrive
    \/ SyncRequest
    \/ SyncConnect
    \/ SyncLock
    \/ SyncSearch
    \/ SyncFetch
    \/ SyncParse
    \/ SyncLogout
    \/ SyncReturn

SpecSync == Init /\ [][NextSync]_vars

NextChain ==
    \/ Arrive
    \/ ChainRequest
    \/ SyncConnect
    \/ SyncLock
    \/ SyncSearch
    \/ SyncFetch
    \/ SyncParse
    \/ SyncLogout
    \/ ChainReturn

SpecChain == Init /\ [][NextChain]_vars

NextSend ==
    \/ SendRequest
    \/ SendPrimary
    \/ SendSecondary
    \/ SendReturn

SpecSend == Init /\ [][NextSend]_vars

NextTest ==
    \/ TestRequest
    \/ TestImapConnect
    \/ TestImapLock
    \/ TestImapLogout
    \/ TestSmtpPrimary
    \/ TestSmtpFallback
    \/ TestReturn

SpecTest == Init /\ [][NextTest]_vars

\* the three routes, one request at a time
RoutesIdle == syncPc = "idle" /\ sendPc = "idle" /\ testPc = "idle"
RoutesSyncRequest == RoutesIdle /\ SyncRequest
RoutesSendRequest == RoutesIdle /\ SendRequest
RoutesTestRequest == RoutesIdle /\ TestRequest

NextRoutes ==
    \/ Arrive
    \/ RoutesSyncRequest
    \/ SyncConnect
    \/ SyncLock
    \/ SyncSearch
    \/ SyncFetch
    \/ SyncParse
    \/ SyncLogout
    \/ SyncReturn
    \/ RoutesSendRequest
    \/ SendPrimary
    \/ SendSecondary
    \/ SendReturn
    \/ RoutesTestRequest
    \/ TestImapConnect
    \/ TestImapLock
    \/ TestImapLogout
    \/ TestSmtpPrimary
    \/ TestSmtpFallback
    \/ TestReturn

SpecRoutes == Init /\ [][NextRoutes]_vars

\* the three routes handled concurrently: one request of each route in flight,
\* each with its own credentials, their steps interleaved in any order
ConcurrentSyncRequests ==
    [key : {<<API_KEY>>}, email : {"sync@example.com"}, password : {"sync-pw"},
     cursor : {<<>>, <<1>>}, backfillDays : {<<>>}, limit : {<<>>},
     advanced : {<<>>}]
ConcurrentSendRequests ==
    [key : {<<API_KEY>>}, fromEmail : {"send@example.com"}, password : {"send-pw"},
     to : {"x"}, subject : {"x"}, bodyText : {"x"}, bodyHtml : {""},
     advanced : {<<>>}]
ConcurrentTestRequests ==
    [key : {<<API_KEY>>}, email : {"test@example.com"}, password : {"test-pw"},
     advanced : {<<>>}]

ConcurrentSyncRequest ==
    /\ syncPc = "idle"
    /\ \E req \in ConcurrentSyncRequests : SyncStart(req)
    /\ UNCHANGED chain
ConcurrentSendRequest ==
    /\ sendPc = "idle"
    /\ \E req \in ConcurrentSendRequests : SendStart(req)
ConcurrentTestRequest ==
    /\ testPc = "idle"
    /\ \E req \in ConcurrentTestRequests : TestStart(req)

InitConcurrent ==
    /\ mailbox = <<10, 20>>
    /\ HandlersIdle

NextConcurrent ==
    \/ ConcurrentSyncRequest
    \/ SyncConnect
    \/ SyncLock
    \/ SyncSearch
    \/ SyncFetch
    \/ SyncParse
    \/ SyncLogout
    \/ SyncReturn
    \/ ConcurrentSendRequest
    \/ SendPrimary
    \/ SendSecondary
    \/ SendReturn
    \/ ConcurrentTestRequest
    \/ TestImapConnect
    \/ TestImapLock
    \/ TestImapLogout
    \/ TestSmtpPrimary
    \/ TestSmtpFallback
    \/ TestReturn

SpecConcurrent == InitConcurrent /\ [][NextConcurrent]_vars

(***************************************************************************)
(* The body of the fetch loop of /sync: the fields and the thread key of   *)
(* one message.  A JavaScript string is a sequence of characters; the      *)
(* empty sequence stands for "", undefined and null, which `||` treats     *)
(* alike.                                                                  *)
(***************************************************************************)
\* a || b on strings
Or(a, b) == IF a # <<>> THEN a ELSE b

\* list.join(sep)
RECURSIVE Join(_, _)
Join(list, sep) ==
    IF list = <<>> THEN <<>>
    ELSE IF Len(list) = 1 THEN list[1]
    ELSE list[1] \o sep \o Join(Tail(list), sep)

\* parsed.references: an array of ids, one id as a string, or absent
ParsedReferences ==
    {[isArray |-> FALSE, items |-> <<>>, text |-> <<>>],
     [isArray |-> FALSE, items |-> <<>>, text |-> <<"x">>],
     [isArray |-> TRUE, items |-> <<>>, text |-> <<>>],
     [isArray |-> TRUE, items |-> << <<"x">>, <<"y">> >>, text |-> <<>>]}

\* what simpleParser and the fetch envelope give for one message
ParsedMessages ==
    [subject : {<<>>, <<"s">>}, envelopeSubject : {<<>>, <<"e">>},
     from : {<<>>, <<"f">>, <<"g">>}, envelopeFrom : {<<>>, <<"h">>},
     messageId : {<<>>, <<"m">>}, inReplyTo : {<<>>, <<"r">>},
     references : ParsedReferences]

NoSubject == <<"(", "n", "o", " ", "s", "u", "b", "j", "e", "c", "t", ")">>

\* Array.isArray(r) ? r : (r ? [r] : [])
References(r) ==
    IF r.isArray THEN r.items
    ELSE IF r.text # <<>> THEN <<r.text>> ELSE <<>>

\* crypto.createHash("sha256").update(s).digest("hex"): the digest of s,
\* taken to be free of collisions
sha256(s) == [sha256 |-> s]

ThreadKeyInputWithoutSender(references, inReplyTo, messageId, subject, fromEmail) ==
    Or(Join(references, <<" ">>), Or(inReplyTo, Or(messageId, subject))) \o <<"|">>

\* (references.join(" ") || inReplyTo || messageId || subject) + "|" + fromEmail
ThreadKeyInput(references, inReplyTo, messageId, subject, fromEmail) ==
    Or(Join(references, <<" ">>), Or(inReplyTo, Or(messageId, subject)))
        \o <<"|">> \o fromEmail

\* the record the loop body pushes for one message (the fields the thread
\* key depends on, and the key)
Pushed(parsed) ==
    LET subject == Or(parsed.subject, Or(parsed.envelopeSubject, NoSubject))
        fromEmail == Or(parsed.from, parsed.envelopeFrom)
        messageId == parsed.messageId
        inReplyTo == parsed.inReplyTo
        references == References(parsed.references)
    IN [externalThreadKey |->
            sha256(ThreadKeyInput(references, inReplyTo, messageId, subject, fromEmail)),
        messageId |-> messageId, inReplyTo |-> inReplyTo, references |-> references,
        subject |-> subject, fromEmail |-> fromEmail]

\* the loop body runs for a first message, in one call
ThreadKeyFirst ==
    /\ keyed = <<>>
    /\ \E parsed \in ParsedMessages :
         keyed' = <<[parsed |-> parsed, pushed |-> Pushed(parsed)]>>
    /\ UNCHANGED <<mailbox, syncVars, sendVars, testVars>>

\* the loop body runs for another message, in the same or in a later call
ThreadKeyNext ==
    /\ Len(keyed) = 1
    /\ \E parsed \in ParsedMessages :
         keyed' = Append(keyed, [parsed |-> parsed, pushed |-> Pushed(parsed)])
    /\ UNCHANGED <<mailbox, syncVars, sendVars, testVars>>

NextThreadKey == ThreadKeyFirst \/ ThreadKeyNext

SpecThreadKey == Init /\ [][NextThreadKey]_vars

(***************************************************************************)
(* Properties of POST /sync.                                               *)
(***************************************************************************)
\* Number(limit), with the default of the destructuring
Limit == Coalesce(syncReq.limit, DefaultLimit)
Candidates == SeqToSet(found)
SetMax(S) == CHOOSE x \in S : \A y \in S : y <= x
Ascending(msgs) ==
    \A i, j \in 1 .. Len(msgs) : i < j => msgs[i].uid < msgs[j].uid
\* the search ran and its result is being consumed, or has been returned
SearchDone == syncPc \in {"fetch", "parse"} \/ SyncSucceeded

\* C1: a successful /sync whose search returned more candidates than `limit`
\* returns exactly `limit` of them, and every candidate it dropped has a UID
\* lower than every one it returned.
C1_MostRecentKept ==
    (SyncSucceeded /\ Cardinality(Candidates) > Limit) =>
        /\ ReturnedUids \subseteq Candidates
        /\ Cardinality(ReturnedUids) = Limit
        /\ Len(SyncResponse.messages) = Limit
        /\ \A d \in Candidates \ ReturnedUids : \A r \in ReturnedUids : d < r

C1_Witness ==
    /\ SyncSucceeded
    /\ Cardinality(Candidates) > Limit
    /\ ReturnedUids # {}
    /\ Candidates \ ReturnedUids # {}

\* C2 as claimed: the returned cursor of a successful /sync is the maximum UID
\* of the batch, and is the input cursor unchanged when the batch is empty,
\* whether or not a cursor was supplied.
C2_CursorAsClaimed ==
    SyncSucceeded =>
        IF ReturnedUids # {}
        THEN SyncResponse.cursor = SetMax(ReturnedUids)
        ELSE <<SyncResponse.cursor>> = syncReq.cursor

\* C2 as amended: the returned cursor of a successful /sync is the maximum UID
\* of the batch; when the batch is empty it is the input cursor if one was
\* supplied and 0 if none was supplied.
C2_Cursor ==
    SyncSucceeded =>
        IF ReturnedUids # {}
        THEN SyncResponse.cursor = SetMax(ReturnedUids)
        ELSE SyncResponse.cursor = Coalesce(syncReq.cursor, 0)

C2_Witness ==
    /\ SyncSucceeded
    /\ ReturnedUids = {}
    /\ ~Present(syncReq.cursor)
    /\ SyncResponse.cursor = 0

C2_WitnessAdvanced ==
    /\ SyncSucceeded
    /\ Present(syncReq.cursor)
    /\ ReturnedUids # {}
    /\ SyncResponse.cursor > syncReq.cursor[1]

\* C3: whenever the request carries a cursor (0 included) the candidate set is
\* the messages with UID strictly greater than the cursor; the search by date
\* (date >= now - backfillDays) is used only when the request carries none.
C3_CandidatesAsClaimed ==
    SearchDone =>
        Candidates =
            IF Present(syncReq.cursor)
            THEN {u \in 1 .. Len(snapshot) : u > syncReq.cursor[1]}
            ELSE {u \in 1 .. Len(snapshot) :
                    snapshot[u] >= Now - Coalesce(syncReq.backfillDays,
                                                  DefaultBackfillDays)}

\* C6: the messages of a /sync are pushed, and returned, in strictly ascending
\* UID order; the k-th message fetched is the k-th retained UID, and at most
\* one message is fetched and not yet parsed and pushed.
C6_AscendingSequential ==
    /\ Ascending(messages)
    /\ SyncSucceeded => Ascending(SyncResponse.messages)
    /\ Len(messages) <= fetchPos /\ fetchPos <= Len(messages) + 1
    /\ \A i \in 1 .. Len(messages) : messages[i].uid = uids[i]
    /\ Present(inflight) => inflight[1] = uids[fetchPos]

C6_Witness ==
    /\ SyncSucceeded
    /\ Len(SyncResponse.messages) >= 2
    /\ Cardinality(Candidates) > Len(SyncResponse.messages)

(***************************************************************************)
(* Properties of chained /sync calls.                                      *)
(***************************************************************************)
\* the result of the successful call whose cursor this call was given
Previous == chain.last[1]
ChainedSuccess == SyncSucceeded /\ chain.fed

\* C4: a successful /sync given the cursor returned by the previous successful
\* /sync returns a cursor that is not lower, whatever arrived in between.
C4_CursorMonotonic ==
    ChainedSuccess => SyncResponse.cursor >= Previous.cursor

C4_Witness ==
    /\ ChainedSuccess
    /\ Previous.cursor > 0
    /\ ReturnedUids = {}
    /\ SyncResponse.cursor = Previous.cursor

C4_WitnessAdvanced ==
    /\ ChainedSuccess
    /\ SyncResponse.cursor > Previous.cursor
    /\ Previous.cursor > 0

\* C5: a successful /sync given the cursor returned by the previous successful
\* /sync returns no UID that the previous one returned.
C5_NoOverlap ==
    ChainedSuccess => ReturnedUids \cap Previous.uids = {}

C5_Witness ==
    /\ ChainedSuccess
    /\ ReturnedUids # {}
    /\ Previous.uids # {}

(***************************************************************************)
(* Properties of POST /send.                                               *)
(***************************************************************************)
\* the handler has finished with a request that passed the key and body checks
SendHandled == sendPc = "done" /\ sendRes[1].status \in {200, 500}
Accepting == {i \in 1 .. Len(sendLog) : sendLog[i].accepted}

\* C7: the first attempt goes to the primary host; a second attempt is made
\* exactly when the first failed, goes to the secondary host and is the last;
\* a success names the host of the attempt that succeeded; when both
\* attempts fail the response is 500 with the error of the second attempt.
C7_Failover ==
    /\ Len(sendLog) <= 2
    /\ Len(sendLog) >= 1 => sendLog[1].transport.host = PrimaryHost
    /\ Len(sendLog) = 2 =>
         ~sendLog[1].ok /\ sendLog[2].transport.host = SecondaryHost
    /\ sendPc = "secondary" => Len(sendLog) = 1 /\ ~sendLog[1].ok
    /\ SendHandled =>
         /\ Len(sendLog) >= 1
         /\ Len(sendRes) = 1
         /\ (Len(sendLog) = 2) <=> ~sendLog[1].ok
         /\ sendRes[1].status = 200 =>
              /\ sendLog[Len(sendLog)].ok
              /\ sendRes[1].usedHost = sendLog[Len(sendLog)].transport.host
         /\ sendRes[1].status = 500 =>
              /\ Len(sendLog) = 2
              /\ ~sendLog[1].ok /\ ~sendLog[2].ok
              /\ sendRes[1].error = sendLog[2].error[1]

C7_Witness ==
    /\ SendHandled
    /\ sendRes[1].status = 500
    /\ sendLog[1].error # sendLog[2].error

C7_WitnessSecondary ==
    /\ SendHandled
    /\ sendRes[1].status = 200
    /\ sendRes[1].usedHost = SecondaryHost

\* C8: a /send that reports success had its message accepted by exactly one
\* host, a /send that reports failure by none, and never by both hosts.
C8_AcceptedOnceAsClaimed ==
    SendHandled =>
        /\ sendRes[1].status = 200 => Cardinality(Accepting) = 1
        /\ sendRes[1].status = 500 => Cardinality(Accepting) = 0
        /\ Cardinality(Accepting) <= 1

(***************************************************************************)
(* Properties of POST /test.                                               *)
(***************************************************************************)
TestHandled == testPc = "done" /\ testRes[1].status = 200
Calls(name) == {i \in 1 .. Len(testLog) : testLog[i].call = name}
Verifies == SelectSeq(testLog, LAMBDA e : e.call = "verify")
\* the inbound check succeeded: connect, lock and release all did
InboundOk ==
    \A i \in Calls("connect") \cup Calls("getMailboxLock") \cup Calls("release") :
        testLog[i].ok

\* C9: a valid /test runs the inbound check and the outbound check whatever
\* the other one gave; the response is 200, carries both results, and its ok
\* is imap.ok AND smtp.ok.
C9_BothChecksReported ==
    /\ testPc = "done" /\ testRes[1].status \notin {400, 401} => TestHandled
    /\ TestHandled =>
         /\ Len(testRes) = 1
         /\ Calls("connect") # {}
         /\ Calls("logout") # {}
         /\ Verifies # <<>>
         /\ testRes[1].imap.ok = InboundOk
         /\ testRes[1].smtp.ok = (\E i \in 1 .. Len(Verifies) : Verifies[i].ok)
         /\ testRes[1].ok = (testRes[1].imap.ok /\ testRes[1].smtp.ok)

C9_Witness ==
    /\ TestHandled
    /\ testRes[1].imap.ok
    /\ ~testRes[1].smtp.ok
    /\ ~testRes[1].ok

C9_WitnessInboundFailed ==
    /\ TestHandled
    /\ ~testRes[1].imap.ok
    /\ testRes[1].smtp.ok

\* C10: when the handshake with the primary host fails it is repeated exactly
\* once, with the secondary host, and the smtp result reported is that of the
\* attempt that succeeded, or that of the second attempt when both failed.
C10_FallbackAsClaimed ==
    (TestHandled /\ ~Verifies[1].ok) =>
        /\ Len(Verifies) = 2
        /\ Verifies[2].transport.host = SecondaryHost
        /\ testRes[1].smtp = Verifies[2].result

(***************************************************************************)
(* Properties of the inbound session (POST /test and POST /sync).          *)
(***************************************************************************)
Count(log, name) == Cardinality({i \in 1 .. Len(log) : log[i].call = name})
\* the handler built a client for the request (it passed the key and body checks)
SyncSession == syncPc \in {"connect", "lock", "search", "fetch", "parse", "logout"}
                 \/ (syncPc = "done" /\ syncRes[1].status \in {200, 500})
TestSession == testPc \in {"imapConnect", "imapLock", "imapLogout", "smtpPrimary",
                           "smtpFallback"}
                 \/ (testPc = "done" /\ testRes[1].status = 200)

\* C11: a /sync or /test request that creates an inbound session calls logout
\* exactly once, as the last call on the session, on every exit path; the step
\* that calls logout leaves the response (of /test: the imap result) as it
\* was, whatever logout does, and is not repeated.
C11_LogoutOnce ==
    /\ [](/\ (syncPc = "done" /\ SyncSession) =>
                /\ Count(syncLog, "logout") = 1
                /\ syncLog[Len(syncLog)].call = "logout"
                /\ syncRes # <<>>
          /\ (SyncSession /\ syncPc # "done") => Count(syncLog, "logout") = 0
          /\ ~SyncSession => syncLog = <<>>
          /\ (TestSession /\ testPc \in {"smtpPrimary", "smtpFallback", "done"}) =>
                /\ Count(testLog, "logout") = 1
                /\ \A i \in 1 .. Len(testLog) :
                     testLog[i].call \in {"connect", "getMailboxLock", "release"} =>
                         \E j \in (i + 1) .. Len(testLog) : testLog[j].call = "logout"
          /\ testPc \in {"imapConnect", "imapLock", "imapLogout"} =>
                Count(testLog, "logout") = 0
          /\ ~TestSession => testLog = <<>>)
    /\ [][/\ syncPc = "logout" =>
               (syncRes' = syncRes /\ syncPc' \in {"logout", "done"})
          /\ testPc = "imapLogout" =>
               (imap' = imap /\ testRes' = testRes
                  /\ testPc' \in {"imapLogout", "smtpPrimary"})]_vars

C11_Witness ==
    /\ syncPc = "done"
    /\ SyncSucceeded
    /\ syncLog[Len(syncLog)] = Call("logout", FALSE)

C11_WitnessTest ==
    /\ testPc = "done"
    /\ TestSession
    /\ \E i \in 1 .. Len(testLog) : testLog[i] = Call("logout", FALSE)
    /\ \E i \in 1 .. Len(testLog) : testLog[i] = Call("getMailboxLock", FALSE)

(***************************************************************************)
(* Properties of the INBOX lock of POST /sync.                             *)
(***************************************************************************)
Acquired == \E i \in 1 .. Len(syncLog) : syncLog[i] = Call("getMailboxLock", TRUE)
Positions(name) == {i \in 1 .. Len(syncLog) : syncLog[i].call = name}

\* C12: in /sync the lock, once acquired, is held during search, bounding and
\* fetch, and lock.release() is called exactly once on every exit path, after
\* every search, fetch and parse and before logout; when the lock was not
\* acquired, release is never called.
C12_LockReleasedOnce ==
    /\ syncPc \in {"search", "fetch", "parse"} =>
         Acquired /\ lock = "held" /\ Count(syncLog, "release") = 0
    /\ (Acquired /\ syncPc \in {"logout", "done"}) =>
         /\ lock = "released"
         /\ Count(syncLog, "release") = 1
         /\ \A r \in Positions("release") :
              /\ \A i \in Positions("search") \cup Positions("fetch")
                        \cup Positions("parse") \cup Positions("getMailboxLock") : i < r
              /\ \A j \in Positions("logout") : r < j
    /\ ~Acquired => lock = "none" /\ Count(syncLog, "release") = 0

C12_Witness ==
    /\ syncPc = "done"
    /\ Acquired
    /\ \E i \in Positions("parse") : ~syncLog[i].ok
    /\ Count(syncLog, "release") = 1

C12_WitnessNotAcquired ==
    /\ syncPc = "done"
    /\ syncLog # <<>>
    /\ syncLog[1] = Call("connect", TRUE)
    /\ ~Acquired

(***************************************************************************)
(* Failure of POST /sync.                                                  *)
(***************************************************************************)
SyncSteps == {"connect", "getMailboxLock", "search", "fetch", "parse"}
StepFailed == \E i \in 1 .. Len(syncLog) :
                  syncLog[i].call \in SyncSteps /\ ~syncLog[i].ok

\* C13: when connect, lock, search, fetch or parse fails, /sync answers with
\* one response, HTTP 500 {ok: false, error}, without messages or cursor; a
\* response with messages is written only after every step succeeded and
\* every retained UID was fetched and parsed.
C13_NoPartialResult ==
    /\ StepFailed =>
         /\ syncPc \in {"logout", "done"}
         /\ Len(syncRes) = 1
         /\ syncRes[1].status = 500 /\ ~syncRes[1].ok
         /\ DOMAIN syncRes[1] = {"status", "ok", "error"}
    /\ \A k \in 1 .. Len(syncRes) :
         syncRes[k].status = 200 =>
            /\ k = 1
            /\ ~StepFailed
            /\ Count(syncLog, "fetch") = Len(uids)
            /\ Count(syncLog, "parse") = Len(uids)
            /\ Len(syncRes[k].messages) = Len(uids)
            /\ \A i \in 1 .. Len(uids) : syncRes[k].messages[i].uid = uids[i]

C13_Witness ==
    /\ syncPc = "done"
    /\ StepFailed
    /\ messages # <<>>
    /\ syncRes[1].status = 500

(***************************************************************************)
(* Validation and authentication of the three routes.                      *)
(***************************************************************************)
\* a request is being handled, or has just been answered
SyncArrived == syncPc # "idle"
SendArrived == sendPc # "idle"
TestArrived == testPc # "idle"
KeyMatches(req) == req.key = <<API_KEY>>
LacksCredentials(req) == req.email = "" \/ req.password = ""
LacksSendField(req) ==
    \/ req.fromEmail = "" \/ req.password = "" \/ req.to = "" \/ req.subject = ""
    \/ (req.bodyText = "" /\ req.bodyHtml = "")

\* C14: a request to /test, /sync or /send that carries the key and lacks a
\* required body field is answered 400, and nothing is done for it: no client
\* or transport is built and no collaborator is called.
C14_MissingFieldRejected ==
    /\ (SyncArrived /\ KeyMatches(syncReq) /\ LacksCredentials(syncReq)) =>
         /\ syncPc = "done"
         /\ Len(syncRes) = 1 /\ syncRes[1].status = 400
         /\ syncLog = <<>> /\ syncClient = NoClient /\ lock = "none"
    /\ (TestArrived /\ KeyMatches(testReq) /\ LacksCredentials(testReq)) =>
         /\ testPc = "done"
         /\ Len(testRes) = 1 /\ testRes[1].status = 400
         /\ testLog = <<>> /\ imap = <<>> /\ smtp = <<>>
    /\ (SendArrived /\ KeyMatches(sendReq) /\ LacksSendField(sendReq)) =>
         /\ sendPc = "done"
         /\ Len(sendRes) = 1 /\ sendRes[1].status = 400
         /\ sendLog = <<>>

C14_Witness ==
    /\ SendArrived
    /\ KeyMatches(sendReq)
    /\ sendReq.bodyText = "" /\ sendReq.bodyHtml = ""
    /\ sendReq.fromEmail # "" /\ sendReq.password # ""
    /\ sendReq.to # "" /\ sendReq.subject # ""
    /\ sendRes[1].status = 400

C14_WitnessSync ==
    /\ SyncArrived
    /\ KeyMatches(syncReq)
    /\ syncReq.email # "" /\ syncReq.password = ""
    /\ syncRes[1].status = 400

\* C15: a request to /test, /sync or /send whose x-api-key header is absent
\* or is not the configured key is answered 401, also when its body lacks a
\* field, and nothing is done for it; a request that got past the key check
\* carries exactly the configured key.
C15_KeyRequired ==
    /\ (SyncArrived /\ ~KeyMatches(syncReq)) =>
         /\ syncPc = "done" /\ syncRes = <<Unauthorized>>
         /\ syncLog = <<>> /\ syncClient = NoClient
    /\ (TestArrived /\ ~KeyMatches(testReq)) =>
         /\ testPc = "done" /\ testRes = <<Unauthorized>>
         /\ testLog = <<>> /\ imap = <<>> /\ smtp = <<>>
    /\ (SendArrived /\ ~KeyMatches(sendReq)) =>
         /\ sendPc = "done" /\ sendRes = <<Unauthorized>>
         /\ sendLog = <<>>
    /\ (SyncArrived /\ KeyMatches(syncReq)) => (syncRes = <<>> \/ syncRes[1].status # 401)
    /\ (TestArrived /\ KeyMatches(testReq)) => (testRes = <<>> \/ testRes[1].status # 401)
    /\ (SendArrived /\ KeyMatches(sendReq)) => (sendRes = <<>> \/ sendRes[1].status # 401)

C15_Witness ==
    /\ SendArrived
    /\ sendReq.key = <<"wrong!">>
    /\ LacksSendField(sendReq)
    /\ sendRes[1].status = 401

C15_WitnessAbsent ==
    /\ SyncArrived
    /\ syncReq.key = <<>>
    /\ ~LacksCredentials(syncReq)
    /\ syncRes[1].status = 401

(***************************************************************************)
(* The effective connection configuration.                                 *)
(***************************************************************************)
\* the override record of a request, with every field absent when there is none
Overrides(req) == IF Present(req.advanced) THEN req.advanced[1] ELSE NoOverrides
InboundAsRequested(client, req) ==
    /\ client.host = PrimaryHost
    /\ client.port = IF Present(Overrides(req).imapPort)
                     THEN Overrides(req).imapPort[1] ELSE 993
    /\ client.secure = IF Present(Overrides(req).imapSecure)
                       THEN Overrides(req).imapSecure[1] ELSE TRUE
OutboundAsRequested(transport, req) ==
    /\ transport.port = IF Present(Overrides(req).smtpPort)
                        THEN Overrides(req).smtpPort[1] ELSE 465
    /\ transport.secure = IF Present(Overrides(req).smtpSecure)
                          THEN Overrides(req).smtpSecure[1] ELSE TRUE
PrimaryAsRequested(transport, req) ==
    transport.host = IF Present(Overrides(req).smtpHost)
                     THEN Overrides(req).smtpHost[1] ELSE PrimaryHost

\* C16: every client and transport of /test, /sync and /send is built with
\* the override of the request for each field the request supplies and with
\* the default for each field it does not; the first outbound attempt goes to
\* the outbound host the request supplies, when it supplies one.
C16_ConfigAsClaimed ==
    /\ SyncSession => InboundAsRequested(syncClient, syncReq)
    /\ \A i \in 1 .. Len(testLog) :
         /\ testLog[i].call = "connect" => InboundAsRequested(testLog[i].client, testReq)
         /\ testLog[i].call = "verify" => OutboundAsRequested(testLog[i].transport, testReq)
    /\ (Verifies # <<>>) => PrimaryAsRequested(Verifies[1].transport, testReq)
    /\ \A i \in 1 .. Len(sendLog) : OutboundAsRequested(sendLog[i].transport, sendReq)
    /\ (sendLog # <<>>) => PrimaryAsRequested(sendLog[1].transport, sendReq)

(***************************************************************************)
(* C17: concurrent requests.                                               *)
(***************************************************************************)
\* every session and transport a request opened carries the credentials of
\* that request
OwnCredentials ==
    /\ syncClient # NoClient =>
          syncClient.user = syncReq.email /\ syncClient.pass = syncReq.password
    /\ \A i \in 1 .. Len(sendLog) :
          /\ sendLog[i].transport.user = sendReq.fromEmail
          /\ sendLog[i].transport.pass = sendReq.password
    /\ \A i \in Calls("connect") :
          /\ testLog[i].client.user = testReq.email
          /\ testLog[i].client.pass = testReq.password
    /\ \A i \in Calls("verify") :
          /\ testLog[i].transport.user = testReq.email
          /\ testLog[i].transport.pass = testReq.password

\* the response of each request follows from what its own collaborators
\* answered
OwnResponse ==
    /\ SendHandled =>
          sendRes[1] = IF sendLog[Len(sendLog)].ok
                       THEN [status |-> 200, ok |-> TRUE,
                             messageId |-> <<"id", sendLog[Len(sendLog)].transport.host>>,
                             usedHost |-> sendLog[Len(sendLog)].transport.host]
                       ELSE [status |-> 500, ok |-> FALSE,
                             error |-> sendLog[Len(sendLog)].error[1]]
    /\ TestHandled =>
          /\ testRes[1].imap.ok = InboundOk
          /\ \E i \in 1 .. Len(Verifies) : testRes[1].smtp = Verifies[i].result
          /\ testRes[1].smtp.ok = Verifies[Len(Verifies)].ok
    /\ syncRes # <<>> =>
          /\ (SyncResponse.status = 500) = StepFailed
          /\ SyncSucceeded =>
                /\ ReturnedUids \subseteq Candidates
                /\ Candidates \subseteq MailboxUids
                /\ Cardinality(ReturnedUids) = Min(Limit, Cardinality(Candidates))

\* C17: with one /sync, one /send and one /test request in flight at the same
\* time and their steps interleaved in any order, every session and transport
\* uses the credentials of its own request, every response follows from the
\* request's own collaborator results, and no step of one request changes
\* the state of another.
C17_RequestsIndependent ==
    /\ [](OwnCredentials /\ OwnResponse)
    /\ [][/\ syncVars' # syncVars => (sendVars' = sendVars /\ testVars' = testVars)
          /\ sendVars' # sendVars => (syncVars' = syncVars /\ testVars' = testVars)
          /\ testVars' # testVars => (syncVars' = syncVars /\ sendVars' = sendVars)]_vars

\* all three requests are in the middle of their work at once
C17_Witness ==
    /\ syncPc = "parse" /\ syncClient # NoClient
    /\ sendPc = "secondary" /\ Len(sendLog) = 1
    /\ testPc = "smtpFallback" /\ Calls("connect") # {}

(***************************************************************************)
(* C19: one response per request.                                          *)
(***************************************************************************)
\* the response attempts of the three handlers that have returned
Returned ==
    (IF syncPc = "done" THEN {syncRes} ELSE {})
      \cup (IF sendPc = "done" THEN {sendRes} ELSE {})
      \cup (IF testPc = "done" THEN {testRes} ELSE {})

\* C19, as claimed: a handler that has returned wrote exactly one response,
\* and no handler ever attempts a second one, whatever the collaborators did
\* (a throwing lock.release() or logout() after the success response of
\* /sync included).
C19_OneResponseAsClaimed ==
    /\ \A res \in Returned : Len(res) = 1
    /\ Len(syncRes) <= 1 /\ Len(sendRes) <= 1 /\ Len(testRes) <= 1

(***************************************************************************)
(* C20: messages dropped by the truncation.                                *)
(***************************************************************************)
\* C20: in a chain of successful /sync calls, each given the cursor the
\* previous one returned, a candidate that an earlier call of the chain cut
\* off by its limit, with a UID below the cursor that call returned, is not
\* returned by any later call of the chain.
C20_DroppedNeverReturned ==
    ChainedSuccess => ReturnedUids \cap chain.dropped = {}

\* a later call of a chain that dropped something returns new messages
C20_Witness ==
    /\ ChainedSuccess
    /\ chain.dropped # {}
    /\ ReturnedUids # {}

(***************************************************************************)
(* C18: the thread key.                                                    *)
(***************************************************************************)
\* references joined, else inReplyTo, else messageId, else subject, of a
\* pushed record
ThreadBase(m) ==
    IF Join(m.references, <<" ">>) # <<>> THEN Join(m.references, <<" ">>)
    ELSE IF m.inReplyTo # <<>> THEN m.inReplyTo
    ELSE IF m.messageId # <<>> THEN m.messageId
    ELSE m.subject

SameThreading(a, b) ==
    /\ a.references = b.references
    /\ a.inReplyTo = b.inReplyTo
    /\ a.messageId = b.messageId
    /\ a.subject = b.subject

\* C18: the externalThreadKey of every pushed message is the digest of
\* (references joined, else inReplyTo, else messageId, else subject) followed
\* by "|" and fromEmail, all as pushed; two messages with the same references,
\* inReplyTo, messageId, subject and fromEmail get the same key, in whatever
\* order and from whatever raw fields they were derived; two messages with
\* the same references, inReplyTo, messageId and subject but different
\* fromEmail get different keys.
C18_ThreadKey ==
    /\ \A i \in 1 .. Len(keyed) :
          keyed[i].pushed.externalThreadKey =
              [sha256 |-> ThreadBase(keyed[i].pushed) \o <<"|">> \o keyed[i].pushed.fromEmail]
    /\ \A i, j \in 1 .. Len(keyed) :
          LET a == keyed[i].pushed
              b == keyed[j].pushed
          IN SameThreading(a, b) =>
                (a.fromEmail = b.fromEmail) = (a.externalThreadKey = b.externalThreadKey)

\* two messages that differ in the sender only, and two different raw
\* messages that give the same pushed fields
C18_Witness ==
    /\ Len(keyed) = 2
    /\ SameThreading(keyed[1].pushed, keyed[2].pushed)
    /\ keyed[1].pushed.fromEmail # keyed[2].pushed.fromEmail
    /\ keyed[1].pushed.references # <<>>

C18_WitnessSameKey ==
    /\ Len(keyed) = 2
    /\ keyed[1].parsed # keyed[2].parsed
    /\ keyed[1].pushed = keyed[2].pushed
====
